---- MODULE Spec2Model ----
(***************************************************************************)
(* Model of the DigiByte Quantum Adaptive Core:                            *)
(*   - the reinforcement engine (AdaptiveEngine.record_events /            *)
(*     apply_learning over an AdaptiveState),                              *)
(*   - the in-memory event store (InMemoryAdaptiveStore),                  *)
(*   - the persistent threat store (ThreatMemory, ThreatPacket) and the    *)
(*     analytics that read it.                                             *)
(*                                                                         *)
(* Python floats are IEEE-754 doubles.  Every float of the reinforcement   *)
(* engine is a multiple of 2^-59 below 8, so a float is kept here as a     *)
(* sign and a magnitude counted in units of 2^-59, the magnitude split in  *)
(* three limbs of 21 bits (h, m, l).  Addition is the exact sum rounded to *)
(* 53 significant bits, ties to even, as the hardware does.                *)
(***************************************************************************)
EXTENDS Integers, Sequences, FiniteSets, TLC

----------------------------------------------------------------------------
(* IEEE-754 double arithmetic, as far as the engine uses it               *)

Base == 2^21

Flt(s, h, m, l) == [s |-> s, h |-> h, m |-> m, l |-> l]

MagOf(x) == <<x.h, x.m, x.l>>

MagLess(a, b) ==
    \/ a[1] < b[1]
    \/ a[1] = b[1] /\ a[2] < b[2]
    \/ a[1] = b[1] /\ a[2] = b[2] /\ a[3] < b[3]

MagAdd(a, b) ==
    LET l == a[3] + b[3]
        m == a[2] + b[2] + (l \div Base)
        h == a[1] + b[1] + (m \div Base)
    IN  <<h, m % Base, l % Base>>

\* a - b for a >= b
MagSub(a, b) ==
    LET l  == a[3] - b[3]
        bl == IF l < 0 THEN 1 ELSE 0
        m  == a[2] - b[2] - bl
        bm == IF m < 0 THEN 1 ELSE 0
        h  == a[1] - b[1] - bm
    IN  <<h, m + bm * Base, l + bl * Base>>

\* round a magnitude to 53 significant bits, ties to even
RoundMag(a) ==
    IF a[1] < 2^11 THEN a
    ELSE LET q    == CHOOSE p \in {2^j : j \in 1..11} :
                        2^10 <= a[1] \div p /\ a[1] \div p < 2^11
             rem  == a[3] % q
             low  == a[3] - rem
             up   == \/ 2 * rem > q
                     \/ 2 * rem = q /\ (low \div q) % 2 = 1
         IN  IF up THEN MagAdd(<<a[1], a[2], low>>, <<0, 0, q>>)
                   ELSE <<a[1], a[2], low>>

FromMag(s, a) ==
    IF a = <<0, 0, 0>> THEN Flt(1, 0, 0, 0) ELSE Flt(s, a[1], a[2], a[3])

\* x + y on doubles
FAdd(x, y) ==
    IF x.s = y.s
    THEN FromMag(x.s, RoundMag(MagAdd(MagOf(x), MagOf(y))))
    ELSE IF MagLess(MagOf(x), MagOf(y))
         THEN FromMag(y.s, RoundMag(MagSub(MagOf(y), MagOf(x))))
         ELSE FromMag(x.s, RoundMag(MagSub(MagOf(x), MagOf(y))))

FNeg(x) == FromMag(0 - x.s, MagOf(x))

\* x - y on doubles
FSub(x, y) == FAdd(x, FNeg(y))

\* x < y on doubles
FLess(x, y) ==
    IF x.s # y.s THEN x.s < y.s
    ELSE IF x.s = 1 THEN MagLess(MagOf(x), MagOf(y))
                    ELSE MagLess(MagOf(y), MagOf(x))

FLeq(x, y) == ~FLess(y, x)

\* Python's max(a, b) and min(a, b)
FMax(a, b) == IF FLess(a, b) THEN b ELSE a

FMin(a, b) == IF FLess(b, a) THEN b ELSE a

\* Division and multiplication, for the analytics.  Their results are
\* doubles that are zero or lie in [2^-7, 8), which the magnitudes in units
\* of 2^-59 hold exactly; any other result is "unrepresentable" and stops
\* the evaluation.

MagDouble(a) == MagAdd(a, a)

\* a / 2 for an even a
MagHalf(a) ==
    <<a[1] \div 2,
      (a[2] + (a[1] % 2) * Base) \div 2,
      (a[3] + (a[2] % 2) * Base) \div 2>>

\* a * 2^k, for a k that loses no bit
RECURSIVE MagShift(_, _)
MagShift(a, k) ==
    IF k = 0 THEN a
    ELSE IF k > 0 THEN MagShift(MagDouble(a), k - 1)
    ELSE IF a[3] % 2 = 0 THEN MagShift(MagHalf(a), k + 1)
    ELSE "unrepresentable"

\* round a magnitude of 55 bits or more, whose discarded tail was non-zero
\* when sticky holds, to 53 significant bits, ties to even
RoundSticky(a, sticky) ==
    RoundMag(IF sticky /\ a[3] % 2 = 0 THEN <<a[1], a[2], a[3] + 1>> ELSE a)

\* scale x and y by powers of two until y <= x < 2y; e is such that the
\* quotient is (x / y) * 2^e
RECURSIVE DivNormalise(_)
DivNormalise(n) ==
    IF MagLess(n.x, n.y)
    THEN DivNormalise([x |-> MagDouble(n.x), y |-> n.y, e |-> n.e - 1])
    ELSE IF ~MagLess(n.x, MagDouble(n.y))
    THEN DivNormalise([x |-> n.x, y |-> MagDouble(n.y), e |-> n.e + 1])
    ELSE n

\* one step of long division: the next bit of r / y, appended to q
DivStep(d) ==
    LET r2  == MagDouble(d.r)
        bit == ~MagLess(r2, d.y)
    IN  [q |-> MagAdd(MagDouble(d.q), <<0, 0, IF bit THEN 1 ELSE 0>>),
         r |-> IF bit THEN MagSub(r2, d.y) ELSE r2,
         y |-> d.y,
         n |-> d.n - 1]

\* d.n more quotient bits, six at a time
RECURSIVE DivBits(_)
DivBits(d) ==
    IF d.n = 0 THEN d
    ELSE DivBits(DivStep(DivStep(DivStep(DivStep(DivStep(DivStep(d)))))))

\* x / y for magnitudes of one scale, y # 0, correctly rounded, in units of
\* 2^-59: 55 quotient bits and a sticky bit, rounded to 53
MagDiv(x, y) ==
    IF x = <<0, 0, 0>> THEN x
    ELSE LET n == DivNormalise([x |-> x, y |-> y, e |-> 0])
             d == DivBits([q |-> <<0, 0, 1>>, r |-> MagSub(n.x, n.y), y |-> n.y, n |-> 54])
         IN  MagShift(RoundSticky(d.q, d.r # <<0, 0, 0>>), n.e + 5)

\* x / y on doubles
FDiv(x, y) == FromMag(x.s * y.s, MagDiv(MagOf(x), MagOf(y)))

\* a / float(b) for integers a >= 0 and b > 0 below 2^21
IntDiv(a, b) == FromMag(1, MagDiv(<<0, 0, a>>, <<0, 0, b>>))

\* carry propagation over six limbs, most significant first
Carry6(d) ==
    LET c1 == d[6] \div Base
        c2 == (d[5] + c1) \div Base
        c3 == (d[4] + c2) \div Base
        c4 == (d[3] + c3) \div Base
        c5 == (d[2] + c4) \div Base
    IN  <<d[1] + c5, (d[2] + c4) % Base, (d[3] + c3) % Base,
          (d[4] + c2) % Base, (d[5] + c1) % Base, d[6] % Base>>

\* the j-th group of seven bits of a magnitude, j = 0 the lowest
Bits7(a, j) == (a[3 - (j \div 3)] \div 2^(7 * (j % 3))) % 2^7

\* the exact product of two magnitudes, in six limbs: seven bits of y at a
\* time, from the top
MulStep(acc, x, c) ==
    Carry6(<<acc[1] * 2^7, acc[2] * 2^7, acc[3] * 2^7,
             acc[4] * 2^7 + x[1] * c, acc[5] * 2^7 + x[2] * c,
             acc[6] * 2^7 + x[3] * c>>)

RECURSIVE MulAcc(_, _, _, _)
MulAcc(acc, x, y, j) ==
    IF j < 0 THEN acc
    ELSE MulAcc(MulStep(acc, x, Bits7(y, j)), x, y, j - 1)

\* x * y for magnitudes in units of 2^-59, correctly rounded: the exact
\* product (units of 2^-118) cut to units of 2^-61, with a sticky bit,
\* rounded to 53 bits
MagMul(x, y) ==
    LET p == MulAcc(<<0, 0, 0, 0, 0, 0>>, x, y, 8)
        t == <<(p[2] \div 2^15) + p[1] * 2^6,
               (p[3] \div 2^15) + (p[2] % 2^15) * 2^6,
               (p[4] \div 2^15) + (p[3] % 2^15) * 2^6>>
        sticky == p[4] % 2^15 # 0 \/ p[5] # 0 \/ p[6] # 0
    IN  IF p = <<0, 0, 0, 0, 0, 0>> THEN <<0, 0, 0>>
        ELSE IF t[1] < 2^12 THEN "unrepresentable"
        ELSE MagShift(RoundSticky(t, sticky), -2)

\* x * y on doubles
FMul(x, y) == FromMag(x.s * y.s, MagMul(MagOf(x), MagOf(y)))

\* the float literals of the engine, as doubles
F0    == Flt(1, 0, 0, 0)
F0_01 == Flt(1, 1310, 1509949, 922747)
F0_02 == Flt(1, 2621, 922746, 1845494)
F0_05 == Flt(1, 6553, 1258291, 419432)
F0_1  == Flt(1, 13107, 419430, 838864)
F0_5  == Flt(1, 65536, 0, 0)
F0_9  == Flt(1, 117964, 1677721, 1258304)
F1_0  == Flt(1, 131072, 0, 0)
F5_0  == Flt(1, 655360, 0, 0)


\* further doubles used as initial AdaptiveState values
F0_11 == Flt(1, 14417, 1929379, 1761608)
F0_12 == Flt(1, 15728, 1342177, 587200)
F0_89 == Flt(1, 116654, 167772, 335552)
F0_95 == Flt(1, 124518, 838860, 1677696)
F2_0  == Flt(1, 262144, 0, 0)
F4_97 == Flt(1, 651427, 1761607, 1425920)
F6_0  == Flt(1, 786432, 0, 0)

\* the float literals of the analytics
F0_4 == Flt(1, 52428, 1677721, 1258304)
F0_6 == Flt(1, 78643, 419430, 838848)
F1_5 == Flt(1, 196608, 0, 0)

----------------------------------------------------------------------------
(* Bounds of the model                                                     *)

\* number of RiskEvents handed to the engine in a behaviour, over all
\* record_events and apply_learning calls
MaxEvents == 2
\* number of engine and store calls in a behaviour
MaxCalls == 3

----------------------------------------------------------------------------
(* Data model (models.py)                                                  *)

\* layer is an open vocabulary; two layers are enough to tell the
\* reporting layer from the others
Layers == {"sentinel", "wallet"}

FeedbackType == {"true_positive", "false_positive", "missed_attack", "unknown"}

RiskEvent == [event_id : {"evt"}, layer : Layers, feedback : FeedbackType]

\* LayerAdjustment()
LayerAdjustment == [weight_delta |-> F0, threshold_shift |-> F0]

RECURSIVE SeqsUpTo(_, _)
SeqsUpTo(S, n) ==
    IF n = 0 THEN {<<>>}
    ELSE LET shorter == SeqsUpTo(S, n - 1)
         IN  shorter \cup {Append(q, x) : q \in shorter, x \in S}

Batches == SeqsUpTo(RiskEvent, MaxEvents)

\* an AdaptiveState: layer_weights and global_threshold
AdaptiveState(w, t) == [layer_weights |-> w, global_threshold |-> t]

NoWeights == [l \in {} |-> F0]

\* the states an engine is constructed with (initial_state argument);
\* the first is the default AdaptiveState(layer_weights={})
InitialStates ==
    { AdaptiveState(NoWeights, F0_5),
      AdaptiveState([l \in Layers |-> F1_0], F0_5),
      AdaptiveState([l \in {"sentinel"} |-> F2_0], F0_12),
      AdaptiveState([l \in Layers |-> IF l = "sentinel" THEN F0_12 ELSE F4_97], F0_11),
      AdaptiveState([l \in Layers |-> IF l = "sentinel" THEN F4_97 ELSE F0_1], F0_89),
      AdaptiveState([l \in Layers |-> IF l = "sentinel" THEN F6_0 ELSE F0], F0_95) }

----------------------------------------------------------------------------
(* ThreatPacket (threat_packet.py)                                         *)

\* A packet carries source_layer, threat_type, severity, node_id (which
\* stands for the optional pass-through fields node_id, wallet_id, tx_id,
\* block_height and for description), metadata, correlation_id, timestamp.
\* metadata values are named by their Python text; "None" is None.
Fields(src, type, sev, node, md, cid, ts) ==
    [source_layer |-> src, threat_type |-> type, severity |-> sev, node_id |-> node,
     metadata |-> md, correlation_id |-> cid, timestamp |-> ts]

\* datetime.fromisoformat(ts.replace("Z", "")): the date as YYYYMMDD and the
\* hour, for the timestamps of the model; any other text does not parse
IsoParse(ts) ==
    CASE ts = "2026-01-01T12:00:00Z" -> [ok |-> TRUE, day |-> 20260101, hour |-> 12]
      [] ts = "2026-01-01T13:00:00Z" -> [ok |-> TRUE, day |-> 20260101, hour |-> 13]
      [] ts = "2025-01-01T00:00:00Z" -> [ok |-> TRUE, day |-> 20250101, hour |-> 0]
      [] ts = "2026-01-02T12:00:00Z" -> [ok |-> TRUE, day |-> 20260102, hour |-> 12]
      [] ts = "2026-11-04T02:00:00.000000Z" -> [ok |-> TRUE, day |-> 20261104, hour |-> 2]
      [] OTHER -> [ok |-> FALSE, day |-> 0, hour |-> 0]

\* datetime.utcnow().isoformat() + "Z"
UtcNow == "2026-11-04T02:00:00.000000Z"

\* str(uuid.uuid4())
Uuid4 == "uuid4"

\* str(correlation_id).strip()
Strip(cid) ==
    CASE cid = " c-2 " -> "c-2"
      [] cid = "   " -> ""
      [] OTHER -> cid

\* isinstance(metadata, dict)
IsDict(md) == md \in {"{}", "{k: v}", "{k: (1, 2)}", "{k: [1, 2]}", "{k: datetime}"}

\* the severity clamp of __post_init__
ClampSeverity(sev) == IF sev < 0 THEN 0 ELSE IF sev > 10 THEN 10 ELSE sev

\* ThreatPacket(**a): __post_init__ validates and normalises, or raises
PostInit(a) ==
    LET tsOk  == a.timestamp = "" \/ IsoParse(a.timestamp).ok
        cidOk == a.correlation_id = "" \/ Strip(a.correlation_id) # ""
        mdOk  == a.metadata = "None" \/ IsDict(a.metadata)
    IN  [ok     |-> tsOk /\ cidOk /\ mdOk,
         packet |-> Fields(a.source_layer, a.threat_type, ClampSeverity(a.severity),
                           a.node_id,
                           IF a.metadata = "None" THEN "{}" ELSE a.metadata,
                           IF a.correlation_id = "" THEN Uuid4 ELSE Strip(a.correlation_id),
                           IF a.timestamp = "" THEN UtcNow ELSE a.timestamp)]

\* json.dumps raises TypeError on a value JSON cannot encode
JsonSerialisable(md) == md # "{k: datetime}"

\* json.loads(json.dumps(md)): a tuple comes back as a list
JsonValue(md) == IF md = "{k: (1, 2)}" THEN "{k: [1, 2]}" ELSE md

\* an element of the persisted JSON array: a dict with exactly the packet
\* keys (shape "packet") or a defective element
Item(shape, f) ==
    [shape |-> shape, source_layer |-> f.source_layer, threat_type |-> f.threat_type,
     severity |-> f.severity, node_id |-> f.node_id, metadata |-> f.metadata,
     correlation_id |-> f.correlation_id, timestamp |-> f.timestamp]

FieldsOf(item) ==
    Fields(item.source_layer, item.threat_type, item.severity, item.node_id,
           item.metadata, item.correlation_id, item.timestamp)

\* to_dict followed by the JSON encoding of save()
Dumped(p) == Item("packet", [p EXCEPT !.metadata = JsonValue(p.metadata)])

\* a from_dict that accepts whatever the element holds
FromDictUnchecked(item) == [ok |-> TRUE, packet |-> FieldsOf(item)]

\* from_dict: not a dict -> ValueError; missing or unexpected keys ->
\* TypeError from ThreatPacket(**data); else __post_init__
FromDict(item) ==
    IF item.shape # "packet" THEN [ok |-> FALSE, packet |-> FieldsOf(item)]
    ELSE PostInit(FieldsOf(item))

\* the packets handed to add_packet / receive_threat_packet: four built by
\* the constructor and one whose timestamp was overwritten afterwards, as
\* tests/test_v2_invalid_timestamp_accounting.py does
PacketA == PostInit(Fields("sentinel", "type_a", 3, "node-1", "None", "",
                           "2026-01-01T12:00:00Z")).packet

PacketB == PostInit(Fields("wallet", "type_b", 15, "node-2", "{k: v}", " c-2 ",
                           "2026-01-01T13:00:00Z")).packet

PacketTuple == PostInit(Fields("sentinel", "type_b", 9, "node-3", "{k: (1, 2)}", "c-3",
                               "2026-01-02T12:00:00Z")).packet

PacketDatetime == PostInit(Fields("wallet", "type_a", 5, "node-4", "{k: datetime}", "c-4",
                                  "2026-01-01T12:00:00Z")).packet

PacketBadTs ==
    [PostInit(Fields("sentinel", "type_a", 5, "node-5", "None", "c-5",
                     "2026-01-01T13:00:00Z")).packet
        EXCEPT !.timestamp = "not-a-timestamp"]

HandedPackets == {PacketA, PacketB, PacketTuple, PacketDatetime, PacketBadTs}

----------------------------------------------------------------------------
(* The persisted file (threat_memory.py)                                   *)

\* ThreatMemory.__init__ default
DefaultMaxPackets == 10000

\* max_packets arguments of a ThreatMemory built directly
Capacities == {-1, 0, 1, 2}

\* the file as json.loads sees it: kind is "absent" (no file), "garbage"
\* (unreadable or not JSON) or the JSON type of the document; items is what
\* iterating the document yields
File(kind, items) == [kind |-> kind, items |-> items]

AbsentFile == File("absent", <<>>)

NotADict == Item("not_a_dict", Fields("", "", 0, "", "None", "", ""))

\* a dict with defaults left empty and an out-of-range severity
ItemDefaults == Item("packet", Fields("wallet", "type_b", 99, "node-6", "None", "",  ""))

ItemBadTs == Item("packet", Fields("sentinel", "type_a", 5, "node-7", "{}", "c-7",
                                   "not-a-timestamp"))

ItemBlankCid == Item("packet", Fields("sentinel", "type_a", 5, "node-8", "{}", "   ",
                                      "2026-01-01T12:00:00Z"))

ItemNoSeverity == Item("missing_field", Fields("sentinel", "type_a", 0, "node-9", "{}",
                                               "c-9", "2026-01-01T12:00:00Z"))

ItemExtraKey == Item("unknown_field", Fields("sentinel", "type_a", 5, "node-10", "{}",
                                             "c-10", "2026-01-01T12:00:00Z"))

\* what the file can hold when the program starts
InitialFiles ==
    { AbsentFile,
      File("garbage", <<>>),
      File("number", <<>>),
      File("null", <<>>),
      File("string", <<NotADict, NotADict>>),
      File("object", <<NotADict>>),
      File("array", <<Dumped(PacketA), NotADict, ItemBadTs, ItemDefaults,
                      ItemNoSeverity, Dumped(PacketB)>>),
      File("array", <<ItemBlankCid, ItemExtraKey>>) }

NoResult == [op |-> "none"]

\* DeepPatternEngine.__init__ defaults
DefaultShortWindow == 50

DefaultLongWindow == 500

----------------------------------------------------------------------------
VARIABLES
    layer_weights,      \* engine.state.layer_weights
    global_threshold,   \* engine.state.global_threshold
    events,             \* engine.store.events
    snapshots,          \* engine.store.snapshots
    update,             \* the last AdaptiveUpdateResult, with the batch, the
                        \* state before it and the state after each event
    packets,            \* ThreatMemory._packets
    max_packets,        \* ThreatMemory.max_packets
    file,               \* the JSON value of the file at ThreatMemory.path
    engine,             \* TRUE when the ThreatMemory is that of an AdaptiveEngine
    fresh,              \* the packets of a fresh ThreatMemory after its load()
    added,              \* the packets handed to add_packet since construction
    loaded,             \* TRUE once load() has run on the ThreatMemory
    result,             \* the last store or analytics call that reports: its
                        \* arguments and what it returned
    calls,              \* calls made so far
    handed,             \* RiskEvents handed to the engine so far
    short_window,       \* DeepPatternEngine.short_window
    long_window,        \* DeepPatternEngine.long_window
    lastOp,             \* the operation that ran last
    err                 \* the exception it raised, "none" if it returned

engineVars == <<layer_weights, global_threshold, events, snapshots, update>>

budgetVars == <<calls, handed>>

threatVars == <<packets, max_packets, file, engine, fresh, added, loaded, result>>

patternVars == <<short_window, long_window>>

vars == <<engineVars, threatVars, patternVars, budgetVars, lastOp, err>>

NoUpdate ==
    [per_layer |-> NoWeights, processed_events |-> <<>>, batch |-> <<>>,
     before |-> AdaptiveState(NoWeights, F0), trace |-> <<>>]

----------------------------------------------------------------------------
(* Reinforcement engine (engine.py)                                        *)

\* the running state of one apply_learning pass
Pass(w, t, pl) == [w |-> w, t |-> t, pl |-> pl]

\* d[k] = v, adding the key if it is new
Put(d, k, v) == [x \in DOMAIN d \cup {k} |-> IF x = k THEN v ELSE d[x]]

\* a seeding that makes every layer known as soon as one reports
SeedEveryLayer(st, layer) ==
    Pass([l \in Layers |-> IF l \in DOMAIN st.w THEN st.w[l] ELSE F1_0],
         st.t,
         [l \in Layers |-> IF l \in DOMAIN st.pl THEN st.pl[l] ELSE LayerAdjustment])

\* "if layer not in self.state.layer_weights": seed weight and adjustment
Seed(st, layer) ==
    IF layer \in DOMAIN st.w THEN st
    ELSE Pass(Put(st.w, layer, F1_0), st.t, Put(st.pl, layer, LayerAdjustment))

\* TRUE_POSITIVE branch
TruePositive(st, layer) ==
    Pass(Put(st.w, layer, FAdd(st.w[layer], F0_05)),
         FAdd(st.t, F0_01),
         Put(st.pl, layer,
             [weight_delta    |-> FAdd(st.pl[layer].weight_delta, F0_05),
              threshold_shift |-> FAdd(st.pl[layer].threshold_shift, F0_01)]))

\* a FALSE_POSITIVE branch that relaxes the weight by the MISSED_ATTACK step
FalsePositiveSmallStep(st, layer) ==
    Pass(Put(st.w, layer, FSub(st.w[layer], F0_02)),
         FSub(st.t, F0_01),
         Put(st.pl, layer,
             [weight_delta    |-> FSub(st.pl[layer].weight_delta, F0_02),
              threshold_shift |-> FSub(st.pl[layer].threshold_shift, F0_01)]))

\* FALSE_POSITIVE branch
FalsePositive(st, layer) ==
    Pass(Put(st.w, layer, FSub(st.w[layer], F0_05)),
         FSub(st.t, F0_01),
         Put(st.pl, layer,
             [weight_delta    |-> FSub(st.pl[layer].weight_delta, F0_05),
              threshold_shift |-> FSub(st.pl[layer].threshold_shift, F0_01)]))

\* a MISSED_ATTACK branch that forgets the threshold
MissedAttackNoThreshold(st) ==
    Pass([l \in DOMAIN st.w |-> FAdd(st.w[l], F0_02)],
         st.t,
         [l \in DOMAIN st.w |->
             [weight_delta    |-> FAdd(st.pl[l].weight_delta, F0_02),
              threshold_shift |-> st.pl[l].threshold_shift]])

\* MISSED_ATTACK branch: every layer of layer_weights, the threshold, and
\* the weight_delta (not the threshold_shift) of every adjustment
MissedAttack(st) ==
    Pass([l \in DOMAIN st.w |-> FAdd(st.w[l], F0_02)],
         FAdd(st.t, F0_02),
         [l \in DOMAIN st.w |->
             [weight_delta    |-> FAdd(st.pl[l].weight_delta, F0_02),
              threshold_shift |-> st.pl[l].threshold_shift]])

\* _apply_single_event
ApplySingleEvent(st0, event) ==
    LET st == Seed(st0, event.layer)
    IN  CASE event.feedback = "true_positive"  -> TruePositive(st, event.layer)
          [] event.feedback = "false_positive" -> FalsePositive(st, event.layer)
          [] event.feedback = "missed_attack"  -> MissedAttack(st)
          [] OTHER -> st

\* the state before the batch followed by the state after each event
RECURSIVE RunBatch(_, _)
RunBatch(st, evs) ==
    IF evs = <<>> THEN <<st>>
    ELSE <<st>> \o RunBatch(ApplySingleEvent(st, Head(evs)), Tail(evs))

\* a weight clamp without the floor
ClampWeightNoFloor(w) == FMin(F5_0, w)

ClampWeight(w) == FMax(F0_1, FMin(F5_0, w))

ClampThreshold(t) == FMax(F0_1, FMin(F0_9, t))

\* _clamp_state
ClampState(st) ==
    AdaptiveState([l \in DOMAIN st.w |-> ClampWeight(st.w[l])], ClampThreshold(st.t))

\* one more call, handing n events
Call(n) ==
    /\ calls < MaxCalls
    /\ handed + n <= MaxEvents
    /\ calls' = calls + 1
    /\ handed' = handed + n

\* deque(maxlen=...) of the event buffer and of the snapshot buffer
EventsMaxLen == 5000

SnapshotsMaxLen == 500

\* deque.append on a deque(maxlen=n): a full deque drops its leftmost entry
DequeAppend(q, x, n) ==
    IF Len(q) >= n THEN Tail(Append(q, x)) ELSE Append(q, x)

\* store.add_event(e)
AddEvent(evs, e) == DequeAppend(evs, e, EventsMaxLen)

\* store.add_event for each event of the batch, in order
RECURSIVE AddEvents(_, _)
AddEvents(evs, batch) ==
    IF batch = <<>> THEN evs
    ELSE AddEvents(AddEvent(evs, Head(batch)), Tail(batch))

\* a record_events that resets the weight of every layer it meets
RecordEventsResetsKnown(batch) ==
    /\ Call(Len(batch))
    /\ events' = AddEvents(events, batch)
    /\ layer_weights' =
         [l \in DOMAIN layer_weights \cup {batch[i].layer : i \in 1..Len(batch)} |->
             IF l \in {batch[i].layer : i \in 1..Len(batch)} THEN F1_0
             ELSE layer_weights[l]]
    /\ lastOp' = "record_events"
    /\ err' = "none"
    /\ UNCHANGED <<global_threshold, snapshots, update, threatVars, patternVars>>

\* record_events(batch)
RecordEvents(batch) ==
    /\ Call(Len(batch))
    /\ events' = AddEvents(events, batch)
    /\ layer_weights' =
         [l \in DOMAIN layer_weights \cup {batch[i].layer : i \in 1..Len(batch)} |->
             IF l \in DOMAIN layer_weights THEN layer_weights[l] ELSE F1_0]
    /\ lastOp' = "record_events"
    /\ err' = "none"
    /\ UNCHANGED <<global_threshold, snapshots, update, threatVars, patternVars>>

\* apply_learning(batch)
ApplyLearning(batch) ==
    LET start == Pass(layer_weights, global_threshold,
                      [l \in DOMAIN layer_weights |-> LayerAdjustment])
        trace == RunBatch(start, batch)
        final == trace[Len(trace)]
        after == ClampState(final)
    IN  /\ Call(Len(batch))
        /\ layer_weights' = after.layer_weights
        /\ global_threshold' = after.global_threshold
        /\ update' = [per_layer |-> final.pl,
                      processed_events |-> [i \in 1..Len(batch) |-> batch[i].event_id],
                      batch |-> batch,
                      before |-> AdaptiveState(layer_weights, global_threshold),
                      trace |-> trace]
        /\ lastOp' = "apply_learning"
        /\ err' = "none"
        /\ UNCHANGED <<events, snapshots, threatVars, patternVars>>

\* store.save_snapshot(engine.state): state.copy() is not a method of the
\* AdaptiveState dataclass, so the call raises before anything is stored
SaveSnapshot ==
    /\ Call(0)
    /\ lastOp' = "save_snapshot"
    /\ err' = "AttributeError"
    /\ UNCHANGED <<engineVars, threatVars, patternVars>>

\* an engine whose threat file is absent
InitLearning ==
    /\ \E s \in InitialStates :
          /\ layer_weights = s.layer_weights
          /\ global_threshold = s.global_threshold
    /\ packets = <<>>
    /\ max_packets = DefaultMaxPackets
    /\ file = AbsentFile
    /\ engine = TRUE
    /\ fresh = <<>>
    /\ added = <<>>
    /\ loaded = TRUE
    /\ result = NoResult
    /\ short_window = DefaultShortWindow
    /\ long_window = DefaultLongWindow
    /\ events = <<>>
    /\ snapshots = <<>>
    /\ update = NoUpdate
    /\ calls = 0
    /\ handed = 0
    /\ lastOp = "init"
    /\ err = "none"

NextLearning ==
    \/ \E batch \in Batches : RecordEvents(batch)
    \/ \E batch \in Batches : ApplyLearning(batch)
    \/ SaveSnapshot

SpecLearning == InitLearning /\ [][NextLearning]_vars

----------------------------------------------------------------------------
(* The event store used directly (memory.py)                               *)

\* the events handed to store.add_event
StoreEvents ==
    { [event_id |-> "evt", layer |-> "sentinel", feedback |-> "true_positive"],
      [event_id |-> "evt", layer |-> "wallet", feedback |-> "false_positive"],
      [event_id |-> "evt", layer |-> "wallet", feedback |-> "unknown"] }

\* an event buffer after n add_event calls, neighbours differing
BufferOf(n) ==
    [i \in 1..n |->
        [event_id |-> "evt",
         layer    |-> IF i % 2 = 0 THEN "sentinel" ELSE "wallet",
         feedback |-> IF i % 3 = 0 THEN "missed_attack"
                      ELSE IF i % 3 = 1 THEN "true_positive" ELSE "unknown"]]

\* the event buffer of a default store: new, one short of full, full
InitialBuffers == {<<>>, BufferOf(EventsMaxLen - 1), BufferOf(EventsMaxLen)}

\* store.add_event(e)
StoreAddEvent(e) ==
    /\ Call(0)
    /\ events' = AddEvent(events, e)
    /\ result' = [op |-> "add_event", event |-> e]
    /\ lastOp' = "add_event"
    /\ err' = "none"
    /\ UNCHANGED <<patternVars, layer_weights, global_threshold, snapshots, update, packets,
                   max_packets, file, engine, fresh, added, loaded>>

\* a default InMemoryAdaptiveStore beside a default AdaptiveState
InitStore ==
    /\ layer_weights = NoWeights
    /\ global_threshold = F0_5
    /\ events \in InitialBuffers
    /\ snapshots = <<>>
    /\ update = NoUpdate
    /\ packets = <<>>
    /\ max_packets = DefaultMaxPackets
    /\ file = AbsentFile
    /\ engine = TRUE
    /\ fresh = <<>>
    /\ added = <<>>
    /\ loaded = TRUE
    /\ result = NoResult
    /\ short_window = DefaultShortWindow
    /\ long_window = DefaultLongWindow
    /\ calls = 0
    /\ handed = 0
    /\ lastOp = "init"
    /\ err = "none"

NextStore ==
    \/ \E e \in StoreEvents : StoreAddEvent(e)
    \/ SaveSnapshot

SpecStore == InitStore /\ [][NextStore]_vars


----------------------------------------------------------------------------
(* Threat store (threat_memory.py) and the engine's use of it              *)

\* an _enforce_limit that drops the newest packets
EnforceLimitKeepOldest(pk, cap) ==
    IF cap <= 0 THEN <<>>
    ELSE IF Len(pk) - cap > 0 THEN SubSeq(pk, 1, cap) ELSE pk

\* an _enforce_limit that takes a non-positive capacity as "no limit"
EnforceLimitNoCapWhenNonPositive(pk, cap) ==
    IF cap <= 0 THEN pk
    ELSE LET excess == Len(pk) - cap
         IN  IF excess > 0 THEN SubSeq(pk, excess + 1, Len(pk)) ELSE pk

\* _enforce_limit
EnforceLimit(pk, cap) ==
    IF cap <= 0 THEN <<>>
    ELSE LET excess == Len(pk) - cap
         IN  IF excess > 0 THEN SubSeq(pk, excess + 1, Len(pk)) ELSE pk

\* a load() loop that puts each rebuilt packet in front
RECURSIVE RebuildReversed(_)
RebuildReversed(items) ==
    IF items = <<>> THEN <<>>
    ELSE LET r == FromDict(Head(items))
         IN  RebuildReversed(Tail(items)) \o (IF r.ok THEN <<r.packet>> ELSE <<>>)

\* the loop of load(): rebuild each element, skipping those that raise
RECURSIVE Rebuild(_)
Rebuild(items) ==
    IF items = <<>> THEN <<>>
    ELSE LET r == FromDict(Head(items))
         IN  (IF r.ok THEN <<r.packet>> ELSE <<>>) \o Rebuild(Tail(items))

\* load() on a store holding current: the exception it raises and the
\* packets it leaves.  A JSON number or null passes json.loads and then
\* fails in "for item in raw", outside both try blocks.
LoadOutcome(f, cap, current) ==
    CASE f.kind \in {"absent", "garbage"} -> [err |-> "none", packets |-> <<>>]
      [] f.kind \in {"number", "null"}    -> [err |-> "TypeError", packets |-> current]
      [] OTHER -> [err |-> "none", packets |-> EnforceLimit(Rebuild(f.items), cap)]

\* a save() that writes the newest packet only
SaveOutcomeNewestOnly(pk, f) ==
    IF \A i \in 1..Len(pk) : JsonSerialisable(pk[i].metadata)
    THEN [err |-> "none",
          file |-> File("array", IF pk = <<>> THEN <<>> ELSE <<Dumped(pk[Len(pk)])>>)]
    ELSE [err |-> "TypeError", file |-> f]

\* save(): json.dumps runs before write_text, so a TypeError leaves the
\* file as it was
SaveOutcome(pk, f) ==
    IF \A i \in 1..Len(pk) : JsonSerialisable(pk[i].metadata)
    THEN [err |-> "none", file |-> File("array", [i \in 1..Len(pk) |-> Dumped(pk[i])])]
    ELSE [err |-> "TypeError", file |-> f]

\* add_packet(p) on a ThreatMemory used directly
AddPacket(p) ==
    /\ ~engine
    /\ Call(0)
    /\ packets' = EnforceLimit(Append(packets, p), max_packets)
    /\ added' = Append(added, p)
    /\ lastOp' = "add_packet"
    /\ err' = "none"
    /\ UNCHANGED <<engineVars, patternVars, max_packets, file, engine, fresh, loaded, result>>

\* save() on a ThreatMemory used directly
Save ==
    /\ ~engine
    /\ Call(0)
    /\ LET out == SaveOutcome(packets, file)
       IN  /\ file' = out.file
           /\ err' = out.err
    /\ lastOp' = "save"
    /\ UNCHANGED <<engineVars, patternVars, packets, max_packets, engine, fresh, added, loaded, result>>

\* load() on a ThreatMemory used directly
Load ==
    /\ ~engine
    /\ Call(0)
    /\ LET out == LoadOutcome(file, max_packets, packets)
       IN  /\ packets' = out.packets
           /\ err' = out.err
    /\ loaded' = TRUE
    /\ lastOp' = "load"
    /\ UNCHANGED <<engineVars, patternVars, max_packets, file, engine, fresh, added, result>>

\* ThreatMemory(path, max_packets).load() on a fresh store of the same path
\* and capacity
LoadFresh ==
    /\ Call(0)
    /\ LET out == LoadOutcome(file, max_packets, <<>>)
       IN  /\ fresh' = out.packets
           /\ err' = out.err
    /\ lastOp' = "load_fresh"
    /\ UNCHANGED <<engineVars, patternVars, packets, max_packets, file, engine, added, loaded, result>>

\* engine.receive_threat_packet(p): add_packet, then save
ReceiveThreatPacket(p) ==
    /\ engine
    /\ Call(0)
    /\ LET pk  == EnforceLimit(Append(packets, p), max_packets)
           out == SaveOutcome(pk, file)
       IN  /\ packets' = pk
           /\ file' = out.file
           /\ err' = out.err
    /\ added' = Append(added, p)
    /\ lastOp' = "receive_threat_packet"
    /\ UNCHANGED <<engineVars, patternVars, max_packets, engine, fresh, loaded, result>>

\* an AdaptiveEngine() that writes what it loaded back to the file
NewEngineSavesFile ==
    /\ engine
    /\ Call(0)
    /\ LET out == LoadOutcome(file, DefaultMaxPackets, <<>>)
       IN  /\ packets' = out.packets
           /\ err' = out.err
           /\ engine' = (out.err = "none")
           /\ file' = SaveOutcome(out.packets, file).file
    /\ max_packets' = DefaultMaxPackets
    /\ added' = <<>>
    /\ loaded' = TRUE
    /\ lastOp' = "new_engine"
    /\ UNCHANGED <<engineVars, patternVars, fresh, result>>

\* AdaptiveEngine() built again on the same working directory: a new
\* ThreatMemory() and its load(); when load() raises there is no engine
NewEngine ==
    /\ engine
    /\ Call(0)
    /\ LET out == LoadOutcome(file, DefaultMaxPackets, <<>>)
       IN  /\ packets' = out.packets
           /\ err' = out.err
           /\ engine' = (out.err = "none")
    /\ max_packets' = DefaultMaxPackets
    /\ added' = <<>>
    /\ loaded' = TRUE
    /\ lastOp' = "new_engine"
    /\ UNCHANGED <<engineVars, patternVars, file, fresh, result>>

Filter(pk, min_severity) == SelectSeq(pk, LAMBDA p : p.severity >= min_severity)

RECURSIVE Sorted(_)
Sorted(S) ==
    IF S = {} THEN <<>>
    ELSE LET least == CHOOSE x \in S : \A y \in S : x <= y
         IN  <<least>> \o Sorted(S \ {least})

\* strftime("%Y-%m-%d") or strftime("%Y-%m-%d %H:00"), as the number
\* YYYYMMDD or YYYYMMDDHH, which orders as the text does
BucketKey(ts, bucket) ==
    IF bucket = "day" THEN IsoParse(ts).day
    ELSE IsoParse(ts).day * 100 + IsoParse(ts).hour

NoTrends(bucket) ==
    [bucket |-> bucket, points |-> <<>>, trend_direction |-> "unknown",
     start_total |-> 0, end_total |-> 0]

\* the dictionary detect_threat_trends returns
ThreatTrends(pk, min_severity, bucket) ==
    LET qualifying == Filter(pk, min_severity)
        parsed     == SelectSeq(qualifying, LAMBDA p : IsoParse(p.timestamp).ok)
        keys       == {BucketKey(parsed[i].timestamp, bucket) : i \in 1..Len(parsed)}
        total(k)   == Cardinality({i \in 1..Len(parsed) :
                          BucketKey(parsed[i].timestamp, bucket) = k})
        high(k)    == Cardinality({i \in 1..Len(parsed) :
                          /\ BucketKey(parsed[i].timestamp, bucket) = k
                          /\ parsed[i].severity >= 8})
        keys_sorted == Sorted(keys)
        start_total == total(keys_sorted[1])
        end_total   == total(keys_sorted[Len(keys_sorted)])
    IN  IF qualifying = <<>> \/ keys = {} THEN NoTrends(bucket)
        ELSE [bucket |-> bucket,
              points |-> [i \in 1..Len(keys_sorted) |->
                            [bucket |-> keys_sorted[i],
                             total |-> total(keys_sorted[i]),
                             high_severity |-> high(keys_sorted[i])]],
              trend_direction |->
                  IF Len(keys_sorted) < 2 THEN "unknown"
                  ELSE IF end_total > start_total THEN "increasing"
                  ELSE IF end_total < start_total THEN "decreasing"
                  ELSE "flat",
              start_total |-> start_total,
              end_total |-> end_total]

\* engine.detect_threat_trends(min_severity, bucket)
DetectThreatTrends(min_severity, bucket) ==
    /\ engine
    /\ Call(0)
    /\ result' = [op |-> "detect_threat_trends", min_severity |-> min_severity,
                  bucket |-> bucket,
                  value |-> ThreatTrends(packets, min_severity, bucket)]
    /\ lastOp' = "detect_threat_trends"
    /\ err' = "none"
    /\ UNCHANGED <<engineVars, patternVars, packets, max_packets, file, engine, fresh, added, loaded>>

\* min_severity arguments of the analytics
MinSeverities == {0, 6}

\* a ThreatMemory built directly on some file with some capacity, or an
\* AdaptiveEngine, whose constructor has loaded the file
InitThreat ==
    /\ layer_weights = NoWeights
    /\ global_threshold = F0_5
    /\ events = <<>>
    /\ snapshots = <<>>
    /\ update = NoUpdate
    /\ file \in InitialFiles
    /\ engine \in BOOLEAN
    /\ IF engine
       THEN /\ max_packets = DefaultMaxPackets
            /\ LoadOutcome(file, DefaultMaxPackets, <<>>).err = "none"
            /\ packets = LoadOutcome(file, DefaultMaxPackets, <<>>).packets
       ELSE /\ max_packets \in Capacities
            /\ packets = <<>>
    /\ loaded = engine
    /\ fresh = <<>>
    /\ added = <<>>
    /\ result = NoResult
    /\ short_window = DefaultShortWindow
    /\ long_window = DefaultLongWindow
    /\ calls = 0
    /\ handed = 0
    /\ lastOp = "init"
    /\ err = "none"

NextThreat ==
    \/ \E p \in HandedPackets : AddPacket(p)
    \/ Save
    \/ Load
    \/ LoadFresh
    \/ \E p \in HandedPackets : ReceiveThreatPacket(p)
    \/ NewEngine
    \/ \E m \in MinSeverities, b \in {"hour", "day"} : DetectThreatTrends(m, b)

SpecThreat == InitThreat /\ [][NextThreat]_vars

----------------------------------------------------------------------------
(* DeepPatternEngine (pattern_engine.py)                                   *)

\* q[-n:] as Python slices: the last n entries for n > 0, all of q for
\* n = 0, and q without its first -n entries for n < 0
SliceFromEnd(q, n) ==
    IF n > 0 THEN (IF Len(q) <= n THEN q ELSE SubSeq(q, Len(q) - n + 1, Len(q)))
    ELSE IF n = 0 THEN q
    ELSE IF 0 - n >= Len(q) THEN <<>>
    ELSE SubSeq(q, 1 - n, Len(q))

\* DeepPatternEngine(memory, sw, lw): the windows it keeps
NewDeepPatternEngine(sw, lw) ==
    LET short == IF sw > 1 THEN sw ELSE 1
    IN  [short_window |-> short, long_window |-> IF lw > short THEN lw ELSE short]

\* _clamp
Clamp(value, lower, upper) == FMax(lower, FMin(upper, value))

\* a zero result that reports a neutral spike ratio of 1.0
ZeroAnalysisNeutralRatio(sw, lw) ==
    [total_packets |-> 0, short_window |-> sw, long_window |-> lw,
     short_count |-> 0, long_count |-> 0, spike_ratio |-> F1_0, spike_score |-> F0,
     diversity_score |-> F0, composite_risk |-> F0]

\* what analyze returns when no packet qualifies
ZeroAnalysis(sw, lw) ==
    [total_packets |-> 0, short_window |-> sw, long_window |-> lw,
     short_count |-> 0, long_count |-> 0, spike_ratio |-> F0, spike_score |-> F0,
     diversity_score |-> F0, composite_risk |-> F0]

\* an analyze whose diversity is the share of the most frequent type's
\* complement, 1.0 for an even split
EvenSplitDiversity(short_slice) ==
    LET types == {short_slice[i].threat_type : i \in 1..Len(short_slice)}
        count(t) == Cardinality({i \in 1..Len(short_slice) : short_slice[i].threat_type = t})
    IN  IF \A t, u \in types : count(t) = count(u) THEN F1_0
        ELSE Clamp(IntDiv(Cardinality(types), Len(short_slice)), F0, F1_0)

\* diversity_score: distinct threat types of the short slice over its length
Diversity(short_slice) ==
    LET unique_types == {short_slice[i].threat_type : i \in 1..Len(short_slice)}
    IN  Clamp(IntDiv(Cardinality(unique_types), Len(short_slice)), F0, F1_0)

\* an analyze that returns the raw spike unclamped
SpikeScoreUnclamped(spike_ratio) == FSub(spike_ratio, F1_0)

\* spike_score from spike_ratio
SpikeScore(spike_ratio) ==
    LET raw_spike == FMax(F0, FSub(spike_ratio, F1_0))
    IN  Clamp(FDiv(raw_spike, F1_0), F0, F1_0)

\* an analyze whose ratio is long_rate over short_rate
PatternAnalysisInverseRatio(pk, sw, lw, min_severity) ==
    LET qualifying  == Filter(pk, min_severity)
        total       == Len(qualifying)
        long_count  == Len(SliceFromEnd(qualifying, lw))
        short_slice == SliceFromEnd(qualifying, sw)
        short_count == Len(short_slice)
        long_rate   == IntDiv(long_count, lw)
        short_rate  == IntDiv(short_count, sw)
        spike_ratio == IF long_rate = F0
                       THEN (IF FLess(F0, short_rate) THEN F1_0 ELSE F0)
                       ELSE FDiv(long_rate, short_rate)
        spike_score == SpikeScore(spike_ratio)
        diversity_score == IF short_count = 0 THEN F0 ELSE Diversity(short_slice)
        composite   == FAdd(FMul(F0_6, spike_score), FMul(F0_4, diversity_score))
    IN  IF total = 0 THEN ZeroAnalysis(sw, lw)
        ELSE [total_packets |-> total, short_window |-> sw, long_window |-> lw,
              short_count |-> short_count, long_count |-> long_count,
              spike_ratio |-> spike_ratio, spike_score |-> spike_score,
              diversity_score |-> diversity_score,
              composite_risk |-> Clamp(composite, F0, F1_0)]

\* the dictionary analyze returns
PatternAnalysis(pk, sw, lw, min_severity) ==
    LET qualifying  == Filter(pk, min_severity)
        total       == Len(qualifying)
        long_count  == Len(SliceFromEnd(qualifying, lw))
        short_slice == SliceFromEnd(qualifying, sw)
        short_count == Len(short_slice)
        long_rate   == IntDiv(long_count, lw)
        short_rate  == IntDiv(short_count, sw)
        spike_ratio == IF long_rate = F0
                       THEN (IF FLess(F0, short_rate) THEN F1_0 ELSE F0)
                       ELSE FDiv(short_rate, long_rate)
        spike_score == SpikeScore(spike_ratio)
        diversity_score == IF short_count = 0 THEN F0 ELSE Diversity(short_slice)
        composite   == FAdd(FMul(F0_6, spike_score), FMul(F0_4, diversity_score))
    IN  IF total = 0 THEN ZeroAnalysis(sw, lw)
        ELSE [total_packets |-> total, short_window |-> sw, long_window |-> lw,
              short_count |-> short_count, long_count |-> long_count,
              spike_ratio |-> spike_ratio, spike_score |-> spike_score,
              diversity_score |-> diversity_score,
              composite_risk |-> Clamp(composite, F0, F1_0)]

\* analyze(min_severity) of the DeepPatternEngine built on the store
Analyze(min_severity) ==
    /\ Call(0)
    /\ result' = [op |-> "analyze", min_severity |-> min_severity,
                  value |-> PatternAnalysis(packets, short_window, long_window,
                                            min_severity)]
    /\ lastOp' = "analyze"
    /\ err' = "none"
    /\ UNCHANGED <<engineVars, patternVars, packets, max_packets, file, engine, fresh,
                   added, loaded>>

\* the packet tests/test_deep_pattern_engine.py builds
TestPacket(i, severity, threat_type) ==
    PostInit(Fields("sentinel", threat_type, severity, "node-" \o ToString(i), "None", "",
                    "2025-01-01T00:00:00Z")).packet

\* 40 packets of old noise, then 30 alternating between two types
ScenarioStore ==
    [j \in 1..70 |->
        IF j <= 40 THEN TestPacket(j - 1, 3, "old_noise")
        ELSE TestPacket(j - 1, 7, IF (j - 1) % 2 = 0 THEN "type_a" ELSE "type_b")]

\* constructor arguments for the windows
WindowArgs == {-1, 0, 1, 2, 3, 5}

\* what a store holds when its pattern engine is built
PatternStores ==
    { <<>>,
      <<PacketA>>,
      <<PacketA, PacketB>>,
      <<PacketB, PacketTuple, PacketA>>,
      <<PacketA, PacketA, PacketB, PacketA>> }

\* a store and the window arguments of the engine built on it; the last is
\* the scenario of the test
PatternSetups ==
    {[packets |-> pk, sw |-> sw, lw |-> lw] :
        pk \in PatternStores, sw \in WindowArgs, lw \in WindowArgs}
    \cup {[packets |-> ScenarioStore, sw |-> 20, lw |-> 100]}

\* the packets added once the engine is built
PatternPackets == {PacketA, PacketTuple}

\* a ThreatMemory that was handed packets, and a DeepPatternEngine on it
InitPattern ==
    /\ layer_weights = NoWeights
    /\ global_threshold = F0_5
    /\ events = <<>>
    /\ snapshots = <<>>
    /\ update = NoUpdate
    /\ \E setup \in PatternSetups :
          /\ packets = setup.packets
          /\ short_window = NewDeepPatternEngine(setup.sw, setup.lw).short_window
          /\ long_window = NewDeepPatternEngine(setup.sw, setup.lw).long_window
    /\ added = packets
    /\ max_packets = DefaultMaxPackets
    /\ file = AbsentFile
    /\ engine = FALSE
    /\ fresh = <<>>
    /\ loaded = FALSE
    /\ result = [op |-> "none"]
    /\ calls = 0
    /\ handed = 0
    /\ lastOp = "init"
    /\ err = "none"

NextPattern ==
    \/ \E p \in PatternPackets : AddPacket(p)
    \/ \E m \in MinSeverities : Analyze(m)

SpecPattern == InitPattern /\ [][NextPattern]_vars

----------------------------------------------------------------------------
(* Analytics of the engine (engine.py)                                     *)

\* the positions of q that hold the first occurrence of their entry
FirstPositions(q) == {i \in 1..Len(q) : \A j \in 1..(i - 1) : q[j] # q[i]}

\* the dict built by d[k] = d.get(k, 0) + 1 over the keys q: its items
\* (key, count) in insertion order, which is the order of first occurrence
CountDict(q) ==
    LET first == Sorted(FirstPositions(q))
    IN  [n \in 1..Len(first) |->
            [key   |-> q[first[n]],
             count |-> Cardinality({j \in 1..Len(q) : q[j] = q[first[n]]})]]

\* sorted(d.items(), key=lambda x: x[1], reverse=True): by count, largest
\* first, items of equal count keeping their order
SortedByCount(d) ==
    LET rank(i) == Cardinality({j \in 1..Len(d) :
                        \/ d[j].count > d[i].count
                        \/ d[j].count = d[i].count /\ j < i}) + 1
    IN  [r \in 1..Len(d) |-> d[CHOOSE i \in 1..Len(d) : rank(i) = r]]

\* a max that returns the last of the items of largest count
MaxByCountLast(d) ==
    d[CHOOSE i \in 1..Len(d) :
          /\ \A j \in 1..Len(d) : d[j].count <= d[i].count
          /\ \A j \in (i + 1)..Len(d) : d[j].count < d[i].count].key

\* max(d.items(), key=lambda x: x[1])[0]: the first of the items of
\* largest count
MaxByCount(d) ==
    d[CHOOSE i \in 1..Len(d) :
          /\ \A j \in 1..Len(d) : d[j].count <= d[i].count
          /\ \A j \in 1..(i - 1) : d[j].count < d[i].count].key

ThreatTypes(pk) == [i \in 1..Len(pk) |-> pk[i].threat_type]

SourceLayers(pk) == [i \in 1..Len(pk) |-> pk[i].source_layer]

\* the dictionary summarize_threats returns
ThreatSummary(pk, min_severity) == CountDict(ThreatTypes(Filter(pk, min_severity)))

RECURSIVE SumSeverity(_)
SumSeverity(pk) == IF pk = <<>> THEN 0 ELSE Head(pk).severity + SumSeverity(Tail(pk))

\* the entry of last_threats for a packet
ThreatRecord(p) ==
    [source_layer |-> p.source_layer, threat_type |-> p.threat_type,
     severity |-> p.severity, timestamp |-> p.timestamp, node_id |-> p.node_id]

\* the dictionary analyze_threats returns
ThreatAnalysis(pk, min_severity, last_n) ==
    LET qualifying == Filter(pk, min_severity)
        total_count == Len(qualifying)
        last == SliceFromEnd(qualifying, last_n)
    IN  IF qualifying = <<>>
        THEN [total_count |-> 0, average_severity |-> F0, max_severity |-> 0,
              most_common_type |-> "None", last_threats |-> <<>>]
        ELSE [total_count |-> total_count,
              average_severity |-> IntDiv(SumSeverity(qualifying), total_count),
              max_severity |-> CHOOSE v \in {qualifying[i].severity : i \in 1..total_count} :
                                  \A i \in 1..total_count : qualifying[i].severity <= v,
              most_common_type |-> MaxByCount(CountDict(ThreatTypes(qualifying))),
              last_threats |-> [i \in 1..Len(last) |-> ThreatRecord(last[i])]]

\* the count of key k in the dict d, 0 when absent: d.get(k, 0)
Get(d, k) ==
    IF \E i \in 1..Len(d) : d[i].key = k
    THEN d[CHOOSE i \in 1..Len(d) : d[i].key = k].count
    ELSE 0

\* the dictionary detect_threat_patterns returns
ThreatPatterns(pk, min_severity, window) ==
    LET qualifying == Filter(pk, min_severity)
        total_considered == Len(qualifying)
        recent == SliceFromEnd(qualifying, window)
        total_type_counts  == CountDict(ThreatTypes(qualifying))
        recent_type_counts == CountDict(ThreatTypes(recent))
        \* what the loop over recent_type_counts.items() computes for each type
        candidates ==
            [i \in 1..Len(recent_type_counts) |->
                [threat_type |-> recent_type_counts[i].key,
                 recent_count |-> recent_type_counts[i].count,
                 total_count |-> Get(total_type_counts, recent_type_counts[i].key),
                 recent_frequency |-> IntDiv(recent_type_counts[i].count, Len(recent)),
                 overall_frequency |->
                     IntDiv(Get(total_type_counts, recent_type_counts[i].key),
                            total_considered)]]
        rising == SelectSeq(candidates,
                      LAMBDA c : /\ c.total_count # 0
                                 /\ c.recent_count >= 2
                                 /\ FLess(FMul(c.overall_frequency, F1_5),
                                          c.recent_frequency))
        hot == SortedByCount(CountDict(SourceLayers(recent)))
    IN  IF qualifying = <<>>
        THEN [window_size |-> window, total_considered |-> 0,
              rising_patterns |-> <<>>, hotspot_layers |-> <<>>]
        ELSE [window_size |-> Len(recent),
              total_considered |-> total_considered,
              rising_patterns |-> rising,
              hotspot_layers |->
                  [i \in 1..Len(hot) |->
                      [source_layer |-> hot[i].key, recent_count |-> hot[i].count]]]

\* a pair count that misses the last adjacent pair
AdjacentPairsButLast(pk) ==
    [i \in 1..(Len(pk) - 2) |-> <<pk[i].threat_type, pk[i + 1].threat_type>>]

\* the keys (a, b) of the loop over range(len(packets) - 1)
AdjacentPairs(pk) ==
    [i \in 1..(Len(pk) - 1) |-> <<pk[i].threat_type, pk[i + 1].threat_type>>]

\* the dictionary detect_threat_correlations returns
ThreatCorrelations(pk, min_severity) ==
    LET qualifying == Filter(pk, min_severity)
        pairs  == SortedByCount(CountDict(AdjacentPairs(qualifying)))
        combos == SortedByCount(CountDict(
                      [i \in 1..Len(qualifying) |->
                          <<qualifying[i].source_layer, qualifying[i].threat_type>>]))
    IN  IF Len(qualifying) < 2
        THEN [pair_correlations |-> <<>>, layer_threat_combos |-> <<>>]
        ELSE [pair_correlations |->
                  [i \in 1..Len(pairs) |->
                      [from_type |-> pairs[i].key[1], to_type |-> pairs[i].key[2],
                       count |-> pairs[i].count]],
              layer_threat_combos |->
                  [i \in 1..Len(combos) |->
                      [source_layer |-> combos[i].key[1], threat_type |-> combos[i].key[2],
                       count |-> combos[i].count]]]

\* t.replace("_", " ").title() on the threat types in use
Title(t) ==
    CASE t = "type_a"    -> "Type A"
      [] t = "type_b"    -> "Type B"
      [] t = "old_noise" -> "Old Noise"

\* f"{x:.2f}" for x >= 0, as the number of hundredths printed: x * 100
\* exactly, rounded to the nearest integer, ties to even
Fmt2(x) ==
    LET l100 == x.l * 100
        m100 == x.m * 100 + (l100 \div Base)
        h100 == x.h * 100 + (m100 \div Base)
        whole == h100 \div 131072
        frac == <<h100 % 131072, m100 % Base, l100 % Base>>
        half == <<65536, 0, 0>>
    IN  IF MagLess(half, frac) \/ (frac = half /\ whole % 2 = 1)
        THEN whole + 1 ELSE whole

\* s[:n] for n >= 0
FirstN(q, n) == SubSeq(q, 1, IF Len(q) < n THEN Len(q) ELSE n)

\* the lines of the text of generate_immune_report, each line as the
\* pieces its f-string joins
ReportLines(min_severity, summary, analysis, patterns, correlations, trends) ==
    LET rising == patterns.rising_patterns
        hot    == patterns.hotspot_layers
        pairs  == FirstN(correlations.pair_correlations, 5)
        combos == FirstN(correlations.layer_threat_combos, 5)
        points == trends.points
    IN  << <<"=== DigiByte Quantum Adaptive Core - Immune Report ===">>,
           <<"Min severity filter: ", min_severity>>,
           <<"">>,
           <<">> Threat Summary:">> >>
        \o (IF summary = <<>> THEN << <<"  No threats recorded yet.">> >>
            ELSE [i \in 1..Len(summary) |->
                     <<"  - ", Title(summary[i].key), ": ", summary[i].count>>])
        \o << <<"">>,
               <<">> Analysis:">>,
               <<"  Total threats: ", analysis.total_count>>,
               <<"  Average severity: ", Fmt2(analysis.average_severity)>>,
               <<"  Max severity: ", analysis.max_severity>>,
               <<"  Most common type: ", analysis.most_common_type>>,
               <<"">>,
               <<">> Rising Patterns (recent vs overall):">> >>
        \o (IF rising = <<>> THEN << <<"  None detected.">> >>
            ELSE [i \in 1..Len(rising) |->
                     <<"  - ", Title(rising[i].threat_type),
                       ": recent ", rising[i].recent_count,
                       " (freq ", Fmt2(rising[i].recent_frequency),
                       ") vs overall ", rising[i].total_count,
                       " (freq ", Fmt2(rising[i].overall_frequency), ")">>])
        \o << <<"">>,
               <<">> Hotspot Layers (most active in recent window):">> >>
        \o (IF hot = <<>> THEN << <<"  None detected.">> >>
            ELSE [i \in 1..Len(hot) |->
                     <<"  - ", hot[i].source_layer, ": ", hot[i].recent_count,
                       " recent events">>])
        \o << <<"">>,
               <<">> Correlations:">> >>
        \o (IF pairs = <<>>
            THEN << <<"  No adjacent threat-type correlations detected.">> >>
            ELSE << <<"  Most common threat-type pairs:">> >>
                 \o [i \in 1..Len(pairs) |->
                        <<"    - ", Title(pairs[i].from_type), " -> ",
                          Title(pairs[i].to_type), ": ", pairs[i].count, " times">>])
        \o (IF combos = <<>>
            THEN << <<"  No strong (layer, threat) combinations.">> >>
            ELSE << <<"  Most active (layer, threat) combinations:">> >>
                 \o [i \in 1..Len(combos) |->
                        <<"    - ", combos[i].source_layer, " / ",
                          Title(combos[i].threat_type), ": ", combos[i].count,
                          " events">>])
        \o << <<"">>,
               <<">> Time Trends:">>,
               <<"  Trend direction (", trends.bucket, "): ", trends.trend_direction>>,
               <<"  Start total: ", trends.start_total,
                 ", End total: ", trends.end_total>> >>
        \o (IF points = <<>> THEN <<>>
            ELSE << <<"  Points:">> >>
                 \o [i \in 1..Len(points) |->
                        <<"    - ", points[i].bucket, ": total=", points[i].total,
                          ", high_severity=", points[i].high_severity>>])
        \o << <<"">> >>

\* the dictionary generate_immune_report returns
ImmuneReport(pk, min_severity, pattern_window, trend_bucket, last_n) ==
    LET summary      == ThreatSummary(pk, min_severity)
        analysis     == ThreatAnalysis(pk, min_severity, last_n)
        patterns     == ThreatPatterns(pk, min_severity, pattern_window)
        correlations == ThreatCorrelations(pk, min_severity)
        trends       == ThreatTrends(pk, min_severity, trend_bucket)
    IN  [summary |-> summary, analysis |-> analysis, patterns |-> patterns,
         correlations |-> correlations, trends |-> trends,
         text |-> ReportLines(min_severity, summary, analysis, patterns,
                              correlations, trends)]

\* what an analytics call leaves alone: everything but the report of the
\* call itself
AnalyticsFrame ==
    UNCHANGED <<engineVars, patternVars, packets, max_packets, file, engine,
                fresh, added, loaded>>

\* engine.summarize_threats(min_severity)
SummarizeThreats(min_severity) ==
    /\ engine
    /\ Call(0)
    /\ result' = [op |-> "summarize_threats", min_severity |-> min_severity,
                  value |-> ThreatSummary(packets, min_severity)]
    /\ lastOp' = "summarize_threats"
    /\ err' = "none"
    /\ AnalyticsFrame

\* engine.analyze_threats(min_severity, last_n)
AnalyzeThreats(min_severity, last_n) ==
    /\ engine
    /\ Call(0)
    /\ result' = [op |-> "analyze_threats", min_severity |-> min_severity,
                  last_n |-> last_n,
                  value |-> ThreatAnalysis(packets, min_severity, last_n)]
    /\ lastOp' = "analyze_threats"
    /\ err' = "none"
    /\ AnalyticsFrame

\* engine.detect_threat_patterns(min_severity, window)
DetectThreatPatterns(min_severity, window) ==
    /\ engine
    /\ Call(0)
    /\ result' = [op |-> "detect_threat_patterns", min_severity |-> min_severity,
                  window |-> window,
                  value |-> ThreatPatterns(packets, min_severity, window)]
    /\ lastOp' = "detect_threat_patterns"
    /\ err' = "none"
    /\ AnalyticsFrame

\* a detect_threat_correlations that consumes the oldest packet it read
DetectThreatCorrelationsConsuming(min_severity) ==
    /\ engine
    /\ Call(0)
    /\ result' = [op |-> "detect_threat_correlations", min_severity |-> min_severity,
                  value |-> ThreatCorrelations(packets, min_severity)]
    /\ lastOp' = "detect_threat_correlations"
    /\ err' = "none"
    /\ packets' = IF packets = <<>> THEN packets ELSE Tail(packets)
    /\ UNCHANGED <<engineVars, patternVars, max_packets, file, engine,
                   fresh, added, loaded>>

\* engine.detect_threat_correlations(min_severity)
DetectThreatCorrelations(min_severity) ==
    /\ engine
    /\ Call(0)
    /\ result' = [op |-> "detect_threat_correlations", min_severity |-> min_severity,
                  value |-> ThreatCorrelations(packets, min_severity)]
    /\ lastOp' = "detect_threat_correlations"
    /\ err' = "none"
    /\ AnalyticsFrame

\* engine.generate_immune_report(min_severity, pattern_window, trend_bucket, last_n)
GenerateImmuneReport(min_severity, pattern_window, trend_bucket, last_n) ==
    /\ engine
    /\ Call(0)
    /\ result' = [op |-> "generate_immune_report", min_severity |-> min_severity,
                  pattern_window |-> pattern_window, trend_bucket |-> trend_bucket,
                  last_n |-> last_n,
                  value |-> ImmuneReport(packets, min_severity, pattern_window,
                                         trend_bucket, last_n)]
    /\ lastOp' = "generate_immune_report"
    /\ err' = "none"
    /\ AnalyticsFrame

\* the stores the analysed engines start from: nothing, three packets of
\* two types, and four packets whose two types tie
AnalysedStores ==
    {<<>>,
     <<PacketA, PacketB, PacketTuple>>,
     <<PacketA, PacketBadTs, PacketB, PacketTuple>>}

\* the packets the analysed engines receive
AnalysedPackets == {PacketA, PacketB}

\* an AdaptiveEngine whose store holds what its file holds, and a
\* DeepPatternEngine(engine.threat_memory, 2, 3) on that store
InitAnalytics ==
    /\ layer_weights = NoWeights
    /\ global_threshold = F0_5
    /\ events = <<>>
    /\ snapshots = <<>>
    /\ update = NoUpdate
    /\ packets \in AnalysedStores
    /\ file = SaveOutcome(packets, AbsentFile).file
    /\ engine = TRUE
    /\ max_packets = DefaultMaxPackets
    /\ loaded = TRUE
    /\ fresh = <<>>
    /\ added = <<>>
    /\ result = NoResult
    /\ short_window = NewDeepPatternEngine(2, 3).short_window
    /\ long_window = NewDeepPatternEngine(2, 3).long_window
    /\ calls = 0
    /\ handed = 0
    /\ lastOp = "init"
    /\ err = "none"

NextAnalytics ==
    \/ \E p \in AnalysedPackets : ReceiveThreatPacket(p)
    \/ \E m \in MinSeverities : SummarizeThreats(m)
    \/ \E m \in MinSeverities, n \in {2, 5} : AnalyzeThreats(m, n)
    \/ \E m \in MinSeverities, w \in {2, 20} : DetectThreatPatterns(m, w)
    \/ \E m \in MinSeverities : DetectThreatCorrelations(m)
    \/ \E m \in MinSeverities, b \in {"hour", "day"} : DetectThreatTrends(m, b)
    \/ \E m \in MinSeverities,
          a \in {[pattern_window |-> 20, trend_bucket |-> "hour", last_n |-> 5],
                 [pattern_window |-> 2, trend_bucket |-> "day", last_n |-> 2]} :
           GenerateImmuneReport(m, a.pattern_window, a.trend_bucket, a.last_n)
    \/ \E m \in MinSeverities : Analyze(m)

SpecAnalytics == InitAnalytics /\ [][NextAnalytics]_vars

----------------------------------------------------------------------------
(* Reading the most recent entries (engine.py, memory.py)                  *)

\* store.recent_events(limit): list(self.events)[-limit:]
RecentEvents(limit) ==
    /\ Call(0)
    /\ result' = [op |-> "recent_events", limit |-> limit,
                  value |-> SliceFromEnd(events, limit)]
    /\ lastOp' = "recent_events"
    /\ err' = "none"
    /\ AnalyticsFrame

\* an AdaptiveEngine with its InMemoryAdaptiveStore, new or after three
\* add_event, and its ThreatMemory, empty or holding three packets
InitRecent ==
    /\ layer_weights = NoWeights
    /\ global_threshold = F0_5
    /\ events \in {<<>>, BufferOf(3)}
    /\ snapshots = <<>>
    /\ update = NoUpdate
    /\ packets \in {<<>>, <<PacketA, PacketB, PacketTuple>>}
    /\ file = SaveOutcome(packets, AbsentFile).file
    /\ engine = TRUE
    /\ max_packets = DefaultMaxPackets
    /\ loaded = TRUE
    /\ fresh = <<>>
    /\ added = <<>>
    /\ result = NoResult
    /\ short_window = DefaultShortWindow
    /\ long_window = DefaultLongWindow
    /\ calls = 0
    /\ handed = 0
    /\ lastOp = "init"
    /\ err = "none"

NextRecent ==
    \/ \E p \in AnalysedPackets : ReceiveThreatPacket(p)
    \/ \E e \in StoreEvents : StoreAddEvent(e)
    \/ \E m \in MinSeverities, n \in {0, 1, 2, 5} : AnalyzeThreats(m, n)
    \/ \E n \in {0, 1, 2, 5} : RecentEvents(n)

SpecRecent == InitRecent /\ [][NextRecent]_vars

----------------------------------------------------------------------------
(* Properties of the reinforcement engine                                  *)

Last(q) == q[Len(q)]

InWeightRange(w) == FLeq(F0_1, w) /\ FLeq(w, F5_0)

InThresholdRange(t) == FLeq(F0_1, t) /\ FLeq(t, F0_9)

InRange(state) ==
    /\ \A l \in DOMAIN state.layer_weights : InWeightRange(state.layer_weights[l])
    /\ InThresholdRange(state.global_threshold)

\* C1: after every apply_learning call, whatever the batch and the prior
\* state, every layer weight lies in [0.1, 5.0] and global_threshold in
\* [0.1, 0.9].
C1_ClampedAfterLearning ==
    lastOp = "apply_learning" =>
        InRange(AdaptiveState(layer_weights, global_threshold))

\* an apply_learning call whose batch left a weight and the threshold
\* outside their ranges before the clamping pass
C1_Witness ==
    /\ lastOp = "apply_learning"
    /\ update.batch # <<>>
    /\ \E l \in DOMAIN layer_weights : ~InWeightRange(Last(update.trace).w[l])
    /\ ~InThresholdRange(Last(update.trace).t)

\* the weight of layer l in a running state, 1.0 when l is not yet known
WeightOr1(st, l) == IF l \in DOMAIN st.w THEN st.w[l] ELSE F1_0

\* the feedback table, for the event that leads from pre to post
FollowsTable(pre, post, e) ==
    /\ DOMAIN post.w = DOMAIN pre.w \cup {e.layer}
    /\ CASE e.feedback = "true_positive" ->
              /\ post.w[e.layer] = FAdd(WeightOr1(pre, e.layer), F0_05)
              /\ \A l \in DOMAIN post.w \ {e.layer} : post.w[l] = pre.w[l]
              /\ post.t = FAdd(pre.t, F0_01)
         [] e.feedback = "false_positive" ->
              /\ post.w[e.layer] = FSub(WeightOr1(pre, e.layer), F0_05)
              /\ \A l \in DOMAIN post.w \ {e.layer} : post.w[l] = pre.w[l]
              /\ post.t = FSub(pre.t, F0_01)
         [] e.feedback = "missed_attack" ->
              /\ \A l \in DOMAIN post.w : post.w[l] = FAdd(WeightOr1(pre, l), F0_02)
              /\ post.t = FAdd(pre.t, F0_02)
         [] e.feedback = "unknown" ->
              /\ \A l \in DOMAIN post.w : post.w[l] = WeightOr1(pre, l)
              /\ post.t = pre.t

\* C7: within apply_learning each event changes the state before clamping
\* as the feedback table says (TRUE_POSITIVE +0.05 on the reporting layer
\* and +0.01 on the threshold, FALSE_POSITIVE -0.05 and -0.01,
\* MISSED_ATTACK +0.02 on every known layer and on the threshold, UNKNOWN
\* nothing), an unseen reporting layer being seeded at 1.0 first.
C7_FeedbackTable ==
    lastOp = "apply_learning" =>
        \A i \in 1..Len(update.batch) :
            FollowsTable(update.trace[i], update.trace[i + 1], update.batch[i])

\* a batch with a MISSED_ATTACK on an unseen layer while another layer is
\* known, and a second event of another kind
C7_Witness ==
    /\ lastOp = "apply_learning"
    /\ Len(update.batch) = 2
    /\ \E i \in 1..2 :
          /\ update.batch[i].feedback = "missed_attack"
          /\ update.batch[i].layer \notin DOMAIN update.trace[i].w
          /\ DOMAIN update.trace[i].w # {}
    /\ \E i \in 1..2 : update.batch[i].feedback \in {"true_positive", "false_positive"}

\* |x - y| as a magnitude, exactly
Dist(x, y) ==
    IF x.s # y.s THEN MagAdd(MagOf(x), MagOf(y))
    ELSE IF MagLess(MagOf(x), MagOf(y)) THEN MagSub(MagOf(y), MagOf(x))
                                       ELSE MagSub(MagOf(x), MagOf(y))

\* |x - y| <= 2^-50
WithinRounding(x, y) == ~MagLess(<<0, 0, 2^9>>, Dist(x, y))

\* the last batch was one TRUE_POSITIVE and one FALSE_POSITIVE of layer l, in
\* either order, applied to an in-range state, and the clamping pass changed
\* nothing
CancellingPair(l) ==
    /\ lastOp = "apply_learning"
    /\ Len(update.batch) = 2
    /\ update.batch[1].layer = l
    /\ update.batch[2].layer = l
    /\ {update.batch[1].feedback, update.batch[2].feedback}
          = {"true_positive", "false_positive"}
    /\ InRange(update.before)
    /\ layer_weights = Last(update.trace).w
    /\ global_threshold = Last(update.trace).t

BeforeWeight(l) ==
    IF l \in DOMAIN update.before.layer_weights
    THEN update.before.layer_weights[l] ELSE F1_0

ReportsZero(l) ==
    /\ update.per_layer[l].weight_delta = F0
    /\ update.per_layer[l].threshold_shift = F0

\* C8 as claimed: a TRUE_POSITIVE and a FALSE_POSITIVE of one layer in one
\* batch leave that layer's weight and global_threshold equal to their
\* values before the batch and report a zero weight_delta and
\* threshold_shift, when nothing saturates.
C8_PairNetsToZeroExactly ==
    \A l \in Layers :
        CancellingPair(l) =>
            /\ layer_weights[l] = BeforeWeight(l)
            /\ global_threshold = update.before.global_threshold
            /\ ReportsZero(l)

\* C8 as amended: the weight and the threshold return to their values
\* before the batch up to the rounding of the two float additions (at most
\* 2^-50 away), and the reported weight_delta and threshold_shift are
\* exactly zero.
C8_PairNetsToZeroUpToRounding ==
    \A l \in Layers :
        CancellingPair(l) =>
            /\ WithinRounding(layer_weights[l], BeforeWeight(l))
            /\ WithinRounding(global_threshold, update.before.global_threshold)
            /\ ReportsZero(l)

\* a cancelling pair after which the weight is one rounding step away
\* from where it started
C8_Witness ==
    \E l \in Layers :
        /\ CancellingPair(l)
        /\ layer_weights[l] # BeforeWeight(l)

\* C6 as claimed: save_snapshot succeeds and stores a copy of the state
\* that later mutations of the live state leave unchanged.
C6_SnapshotStored ==
    lastOp = "save_snapshot" =>
        /\ err = "none"
        /\ snapshots # <<>>
        /\ Last(snapshots) = AdaptiveState(layer_weights, global_threshold)


----------------------------------------------------------------------------
(* Properties of the threat store                                          *)

\* the n most recent entries of q
LastN(q, n) == IF Len(q) <= n THEN q ELSE SubSeq(q, Len(q) - n + 1, Len(q))

\* C2: with max_packets = M > 0, once M + k packets (k >= 0) have been
\* added to an initially empty store, the store holds exactly the M most
\* recently added packets in insertion order; after any add_packet it
\* holds at most M packets.
C2_FifoBound ==
    (lastOp = "add_packet" /\ max_packets > 0) =>
        /\ Len(packets) <= max_packets
        /\ (~loaded /\ Len(added) >= max_packets) =>
              /\ Len(packets) = max_packets
              /\ packets = LastN(added, max_packets)

\* three packets added to an empty store of capacity 2
C2_Witness ==
    /\ lastOp = "add_packet"
    /\ ~loaded
    /\ max_packets = 2
    /\ Len(added) = 3
    /\ added[1] # added[3]

\* the packet is as its constructor left it and its metadata comes back
\* from JSON unchanged
Intact(p) ==
    /\ IsoParse(p.timestamp).ok
    /\ p.correlation_id # ""
    /\ Strip(p.correlation_id) = p.correlation_id
    /\ p.severity \in 0..10
    /\ IsDict(p.metadata)
    /\ JsonSerialisable(p.metadata)
    /\ JsonValue(p.metadata) = p.metadata

AllIntact(pk) == \A i \in 1..Len(pk) : Intact(pk[i])

DumpAll(pk) == [i \in 1..Len(pk) |-> Dumped(pk[i])]

Saved == lastOp \in {"save", "receive_threat_packet"} /\ err = "none"

\* C3 as claimed: for every list of packets a ThreatMemory holds, save()
\* followed by load() in a fresh store of the same path and capacity
\* yields the same packets, field for field, in the same order.
C3_RoundTripEveryList ==
    [][(Saved /\ lastOp' = "load_fresh") => (err' = "none" /\ fresh' = packets)]_vars

\* C3 as amended: the round trip yields the same packets in the same order
\* when every held packet is still as its constructor left it (parsable
\* timestamp, stripped non-blank correlation_id, severity in 0..10, dict
\* metadata) and its metadata is unchanged by JSON encoding.
C3_RoundTripIntact ==
    [][(Saved /\ AllIntact(packets) /\ lastOp' = "load_fresh")
          => (err' = "none" /\ fresh' = packets)]_vars

\* a fresh store that loaded two different intact packets back from the
\* file the store saved
C3_Witness ==
    /\ lastOp = "load_fresh"
    /\ Len(packets) >= 2
    /\ packets[1] # packets[2]
    /\ AllIntact(packets)
    /\ file = File("array", DumpAll(packets))
    /\ fresh = packets

\* the packets a load has left: in the fresh store for load_fresh, in the
\* store itself otherwise
LoadedPackets == IF lastOp = "load_fresh" THEN fresh ELSE packets

IsLoad == lastOp \in {"load", "load_fresh", "new_engine"}

\* C4 as claimed: load() never raises, and a file that is unreadable, not
\* JSON, or JSON other than an array leaves the store empty.
C4_LoadNeverRaises ==
    IsLoad =>
        /\ err = "none"
        /\ file.kind \in {"garbage", "number", "null", "string", "object"}
              => LoadedPackets = <<>>

\* the element rebuilds as a ThreatPacket
ElementValid(item) ==
    /\ item.shape = "packet"
    /\ item.timestamp = "" \/ IsoParse(item.timestamp).ok
    /\ item.correlation_id = "" \/ Strip(item.correlation_id) # ""
    /\ item.metadata = "None" \/ IsDict(item.metadata)

\* the packets of the valid elements, in file order
ValidElements(items) ==
    LET valid == SelectSeq(items, ElementValid)
    IN  [i \in 1..Len(valid) |-> PostInit(FieldsOf(valid[i])).packet]

\* C5: when the file is a JSON array, load() skips the elements that fail
\* to rebuild, keeps the valid ones in file order and re-enforces the
\* capacity: the store holds the last min(max_packets, valid) valid
\* elements, none when max_packets <= 0.
C5_LoadKeepsValid ==
    (IsLoad /\ file.kind = "array") =>
        /\ err = "none"
        /\ LoadedPackets =
              IF max_packets <= 0 THEN <<>>
              ELSE LastN(ValidElements(file.items), max_packets)

\* a load of six elements, three of them valid, into a store of capacity 2
C5_Witness ==
    /\ lastOp = "load"
    /\ file.kind = "array"
    /\ max_packets = 2
    /\ Len(file.items) = 6
    /\ Len(ValidElements(file.items)) = 3
    /\ Len(packets) = 2

\* C9 as claimed: after receive_threat_packet calls the file holds the
\* engine's packet list, and an AdaptiveEngine constructed afterwards on
\* the same path lists exactly those packets.
C9_PersistedAcrossRestart ==
    [][(engine /\ lastOp = "receive_threat_packet" /\ lastOp' = "new_engine")
          => (err' = "none" /\ packets' = LastN(packets, DefaultMaxPackets))]_vars

\* C9 as amended: when every packet the engine holds is still as its
\* constructor left it, with metadata unchanged by JSON encoding, then
\* after receive_threat_packet the file holds exactly the engine's packet
\* list, and an AdaptiveEngine constructed afterwards lists exactly those
\* packets (the most recent max_packets of them).
C9_IntactPersistedAcrossRestart ==
    /\ [](engine /\ lastOp = "receive_threat_packet" /\ AllIntact(packets)
            => err = "none" /\ file = File("array", DumpAll(packets)))
    /\ [][(engine /\ lastOp = "receive_threat_packet" /\ AllIntact(packets)
             /\ lastOp' = "new_engine")
            => (err' = "none" /\ packets' = LastN(packets, DefaultMaxPackets))]_vars

\* a restarted engine that lists the two different packets its
\* predecessor received
C9_Witness ==
    /\ lastOp = "new_engine"
    /\ engine
    /\ Len(packets) >= 2
    /\ packets[1] # packets[2]
    /\ AllIntact(packets)
    /\ file = File("array", DumpAll(packets))

\* C11: constructing an AdaptiveEngine with default arguments creates and
\* modifies no file: the file at the threat store's path is after the
\* construction what it was before, absent if it was absent.
C11_ConstructionWritesNoFile ==
    [][lastOp' = "new_engine" => file' = file]_vars

\* an engine constructed over an existing file, which it loaded packets from
C11_Witness ==
    /\ lastOp = "new_engine"
    /\ err = "none"
    /\ file.kind = "array"
    /\ packets # <<>>
    /\ packets = Rebuild(file.items)

\* C19: a ThreatMemory whose max_packets is zero or negative holds zero
\* packets after every add_packet and after every load, whatever is added
\* and whatever the persisted file contains.
C19_NonPositiveCapacityHoldsNothing ==
    (max_packets <= 0 /\ lastOp \in {"add_packet", "load", "load_fresh"}) =>
        LoadedPackets = <<>>

\* a store of non-positive capacity that was handed a packet and then
\* loaded a file holding valid elements
C19_Witness ==
    /\ max_packets <= 0
    /\ lastOp = "load"
    /\ err = "none"
    /\ added # <<>>
    /\ file.kind = "array"
    /\ ValidElements(file.items) # <<>>
    /\ packets = <<>>

\* the qualifying packets whose timestamp does not parse
Unparsable(pk, min_severity) ==
    SelectSeq(Filter(pk, min_severity), LAMBDA p : ~IsoParse(p.timestamp).ok)

\* C10 as claimed: detect_threat_trends does not raise on packets with
\* unparsable timestamps, leaves them out of every bucket and returns an
\* invalid_timestamp_count equal to their number.
C10_InvalidTimestampCount ==
    (lastOp = "detect_threat_trends" /\ Unparsable(packets, result.min_severity) # <<>>) =>
        /\ err = "none"
        /\ "invalid_timestamp_count" \in DOMAIN result.value
        /\ result.value.invalid_timestamp_count
              = Len(Unparsable(packets, result.min_severity))

----------------------------------------------------------------------------
(* Properties of record_events and of the event store                      *)

\* the events the step appended to the event buffer
Recorded == SubSeq(events', Len(events') - (handed' - handed) + 1, Len(events'))

C18_BuffersKeepMostRecent ==
    /\ [](Len(events) <= EventsMaxLen /\ Len(snapshots) <= SnapshotsMaxLen)
    /\ [][lastOp' = "add_event" =>
             events' = LastN(Append(events, result'.event), EventsMaxLen)]_vars
    /\ [][lastOp' = "save_snapshot" =>
             snapshots' = LastN(Append(snapshots,
                                       AdaptiveState(layer_weights, global_threshold)),
                                SnapshotsMaxLen)]_vars

----------------------------------------------------------------------------
(* Properties of the DeepPatternEngine                                     *)

InUnitRange(x) == FLeq(F0, x) /\ FLeq(x, F1_0)

\* C12: for every store content, every min_severity and every pair of
\* constructor window arguments, zero and negative ones included, analyze
\* returns spike_score, diversity_score and composite_risk each within
\* [0, 1].
C12_ScoresInUnitRange ==
    lastOp = "analyze" =>
        /\ InUnitRange(result.value.spike_score)
        /\ InUnitRange(result.value.diversity_score)
        /\ InUnitRange(result.value.composite_risk)

\* an analyze whose spike ratio is 3: the raw spike of 2 is cut to 1
C12_Witness ==
    /\ lastOp = "analyze"
    /\ short_window = 1
    /\ long_window = 3
    /\ result.value.total_packets = 1
    /\ FLess(F2_0, result.value.spike_ratio)
    /\ result.value.spike_score = F1_0
    /\ result.value.diversity_score = F1_0
    /\ result.value.composite_risk = F1_0

\* C13: when no stored packet has severity >= min_severity (the store is
\* empty or every packet is filtered out), analyze raises no error and
\* returns total_packets, short_count, long_count, spike_ratio,
\* spike_score, diversity_score and composite_risk all equal to 0.
C13_NothingQualifiesAllZero ==
    (lastOp = "analyze" /\ Filter(packets, result.min_severity) = <<>>) =>
        /\ err = "none"
        /\ result.value.total_packets = 0
        /\ result.value.short_count = 0
        /\ result.value.long_count = 0
        /\ result.value.spike_ratio = F0
        /\ result.value.spike_score = F0
        /\ result.value.diversity_score = F0
        /\ result.value.composite_risk = F0

\* an analyze over a store whose packets are all below min_severity
C13_Witness ==
    /\ lastOp = "analyze"
    /\ packets # <<>>
    /\ result.min_severity = 6
    /\ \A i \in 1..Len(packets) : packets[i].severity < 6
    /\ result.value = ZeroAnalysis(short_window, long_window)

\* the scenario of tests/test_deep_pattern_engine.py has just been analysed:
\* 40 old_noise packets of severity 3, then 30 packets of severity 7
\* alternating type_a and type_b, windows 20 and 100, min_severity 0
ScenarioAnalysed ==
    /\ lastOp = "analyze"
    /\ packets = ScenarioStore
    /\ short_window = 20
    /\ long_window = 100
    /\ result.min_severity = 0

\* C14 as claimed: in the scenario the diversity_score of the last 20
\* packets (10 of type_a, 10 of type_b) is 1.0.
C14_ScenarioDiversityIsOne ==
    ScenarioAnalysed => result.value.diversity_score = F1_0

\* C14 as amended: in the scenario the diversity_score of the last 20
\* packets (10 of type_a, 10 of type_b) is 0.1, two distinct threat types
\* over twenty packets.
C14_ScenarioDiversityIsOneTenth ==
    ScenarioAnalysed => result.value.diversity_score = F0_1

\* the scenario analysed: 70 packets, the short slice split 10 / 10
C14_Witness ==
    /\ ScenarioAnalysed
    /\ result.value.total_packets = 70
    /\ result.value.short_count = 20
    /\ \A t \in {"type_a", "type_b"} :
          Cardinality({i \in 51..70 : packets[i].threat_type = t}) = 10

----------------------------------------------------------------------------
(* Properties of the engine analytics                                      *)

\* the threat types of the packets that qualified for the reported call
QualifyingTypes == ThreatTypes(Filter(packets, result.min_severity))

\* the number of t among the first i entries of q
RunningCount(q, t, i) == Cardinality({j \in 1..i : q[j] = t})

\* the largest final count of a type of q
MaxCount(q) ==
    CHOOSE c \in {RunningCount(q, q[i], Len(q)) : i \in 1..Len(q)} :
        \A i \in 1..Len(q) : RunningCount(q, q[i], Len(q)) <= c

\* the types of q whose final count is the largest
MostFrequent(q) == {q[i] : i \in {j \in 1..Len(q) : RunningCount(q, q[j], Len(q)) = MaxCount(q)}}

\* the type whose running count is the first to reach the largest count
FirstToReachMax(q) ==
    q[CHOOSE i \in 1..Len(q) :
          /\ RunningCount(q, q[i], i) = MaxCount(q)
          /\ \A j \in 1..(i - 1) : RunningCount(q, q[j], j) < MaxCount(q)]

\* the position of the first t in q
FirstSeen(q, t) == CHOOSE i \in 1..Len(q) : q[i] = t /\ \A j \in 1..(i - 1) : q[j] # t

\* C15 as claimed: most_common_type is the type whose running count, in a
\* left-to-right scan of the qualifying packets, is the first to reach the
\* maximum count.
C15_FirstToReachMaximum ==
    (lastOp = "analyze_threats" /\ QualifyingTypes # <<>>) =>
        result.value.most_common_type = FirstToReachMax(QualifyingTypes)

\* C15 amended: most_common_type is a type of maximum count among the
\* qualifying packets, and among the types that tie on that count it is
\* the one first seen in the chronological sequence.
C15_FirstSeenAmongMostFrequent ==
    (lastOp = "analyze_threats" /\ QualifyingTypes # <<>>) =>
        /\ result.value.most_common_type \in MostFrequent(QualifyingTypes)
        /\ \A t \in MostFrequent(QualifyingTypes) :
               FirstSeen(QualifyingTypes, result.value.most_common_type)
                   <= FirstSeen(QualifyingTypes, t)

\* analyze_threats has answered on packets whose types tie on the
\* maximum count, the first seen of them not being the first to reach it
C15_Witness ==
    /\ lastOp = "analyze_threats"
    /\ QualifyingTypes # <<>>
    /\ Cardinality(MostFrequent(QualifyingTypes)) >= 2
    /\ result.value.most_common_type # FirstToReachMax(QualifyingTypes)

RECURSIVE SumCounts(_)
SumCounts(q) == IF q = <<>> THEN 0 ELSE Head(q).count + SumCounts(Tail(q))

NonIncreasing(q) == \A i \in 1..(Len(q) - 1) : q[i].count >= q[i + 1].count

\* C16: with fewer than 2 qualifying packets detect_threat_correlations
\* returns two empty lists; with n >= 2 each ordered pair of adjacent types
\* is listed once with the number of positions it occupies (n - 1 in all),
\* each (source_layer, threat_type) is listed once with its number of
\* occurrences (n in all), and both lists are in non-increasing order of
\* count.
C16_CorrelationCounts ==
    lastOp = "detect_threat_correlations" =>
        LET q == Filter(packets, result.min_severity)
            n == Len(q)
            pairs  == result.value.pair_correlations
            combos == result.value.layer_threat_combos
            PairAt(a, b) == {i \in 1..(n - 1) :
                                q[i].threat_type = a /\ q[i + 1].threat_type = b}
            ComboAt(l, t) == {i \in 1..n :
                                q[i].source_layer = l /\ q[i].threat_type = t}
        IN  IF n < 2 THEN pairs = <<>> /\ combos = <<>>
            ELSE /\ \A i \in 1..Len(pairs) :
                        pairs[i].count = Cardinality(PairAt(pairs[i].from_type,
                                                            pairs[i].to_type))
                 /\ \A i \in 1..(n - 1) :
                        Cardinality({k \in 1..Len(pairs) :
                            /\ pairs[k].from_type = q[i].threat_type
                            /\ pairs[k].to_type = q[i + 1].threat_type}) = 1
                 /\ SumCounts(pairs) = n - 1
                 /\ \A i \in 1..Len(combos) :
                        combos[i].count = Cardinality(ComboAt(combos[i].source_layer,
                                                              combos[i].threat_type))
                 /\ \A i \in 1..n :
                        Cardinality({k \in 1..Len(combos) :
                            /\ combos[k].source_layer = q[i].source_layer
                            /\ combos[k].threat_type = q[i].threat_type}) = 1
                 /\ SumCounts(combos) = n
                 /\ NonIncreasing(pairs)
                 /\ NonIncreasing(combos)

\* detect_threat_correlations has answered on packets where a pair seen
\* later is more frequent than the pair seen first
C16_Witness ==
    /\ lastOp = "detect_threat_correlations"
    /\ Len(Filter(packets, result.min_severity)) >= 3
    /\ LET q == Filter(packets, result.min_severity)
           first == [from_type |-> q[1].threat_type, to_type |-> q[2].threat_type]
       IN  /\ result.value.pair_correlations[1].count >= 2
           /\ result.value.pair_correlations[1].from_type # first.from_type

AnalyticsOps ==
    {"summarize_threats", "analyze_threats", "detect_threat_patterns",
     "detect_threat_correlations", "detect_threat_trends",
     "generate_immune_report", "analyze"}

\* the operation and the arguments of a reported call
Arguments(r) == [f \in DOMAIN r \ {"value"} |-> r[f]]

----------------------------------------------------------------------------
(* Properties of reading the most recent entries                           *)

\* C21 as claimed: for every N >= 0, analyze_threats(last_n=N) returns in
\* last_threats the min(N, count) chronologically last qualifying packets
\* in order and recent_events(limit=N) returns the min(N, count) most
\* recent events in order; N = 0 yields an empty list.
C21_LastNIncludingZero ==
    /\ lastOp = "analyze_threats" =>
           LET last == LastN(Filter(packets, result.min_severity), result.last_n)
           IN  result.value.last_threats = [i \in 1..Len(last) |-> ThreatRecord(last[i])]
    /\ lastOp = "recent_events" =>
           result.value = LastN(events, result.limit)

----------------------------------------------------------------------------
(* Properties of MISSED_ATTACK and of the reported adjustments             *)

\* the weight an event of the given feedback leaves on its own layer when
\* that layer is seeded by it
FromSeed(feedback) ==
    CASE feedback = "true_positive"  -> FAdd(F1_0, F0_05)
      [] feedback = "false_positive" -> FSub(F1_0, F0_05)
      [] feedback = "missed_attack"  -> FAdd(F1_0, F0_02)
      [] OTHER -> F1_0

\* the batch with its j-th event moved to the front
MovedToFront(batch, j) ==
    <<batch[j]>> \o SubSeq(batch, 1, j - 1) \o SubSeq(batch, j + 1, Len(batch))

\* the j-th event of the last batch is the first to name its layer
FirstSeenAt(j) == update.batch[j].layer \notin DOMAIN update.trace[j].w

\* C22: a MISSED_ATTACK raises by 0.02 exactly the layers known when it is
\* processed: those known before it and its own reporting layer, seeded
\* just before.  A layer first seen by a later event of the batch is
\* seeded at 1.0 without that bump, so the same events in another order
\* (the later event first) leave another weight on that layer.
C22_MissedAttackBumpsKnownLayers ==
    lastOp = "apply_learning" =>
        \A i \in 1..Len(update.batch) :
            update.batch[i].feedback = "missed_attack" =>
                LET pre   == update.trace[i]
                    post  == update.trace[i + 1]
                    known == DOMAIN pre.w \cup {update.batch[i].layer}
                IN  /\ DOMAIN post.w = known
                    /\ \A l \in known : post.w[l] = FAdd(WeightOr1(pre, l), F0_02)
                    /\ \A j \in (i + 1)..Len(update.batch) :
                           FirstSeenAt(j) =>
                               LET l2 == update.batch[j].layer
                               IN  /\ l2 \notin known
                                   /\ update.trace[j + 1].w[l2]
                                         = FromSeed(update.batch[j].feedback)
                                   /\ Last(RunBatch(update.trace[1],
                                                    MovedToFront(update.batch, j))).w[l2]
                                         # Last(update.trace).w[l2]

\* a batch that opens with a MISSED_ATTACK on a layer it seeds itself and
\* whose second event is the first to name the other layer
C22_Witness ==
    /\ lastOp = "apply_learning"
    /\ Len(update.batch) >= 2
    /\ update.batch[1].feedback = "missed_attack"
    /\ update.batch[1].layer \notin DOMAIN update.before.layer_weights
    /\ FirstSeenAt(2)

\* the last batch was applied to an in-range state and the clamping pass
\* changed nothing
Unsaturated ==
    /\ lastOp = "apply_learning"
    /\ InRange(update.before)
    /\ layer_weights = Last(update.trace).w
    /\ global_threshold = Last(update.trace).t

\* the sum of threshold_shift over the layers S of the adjustments pl
RECURSIVE SumShifts(_, _)
SumShifts(pl, S) ==
    IF S = {} THEN F0
    ELSE LET l == CHOOSE x \in S : TRUE
         IN  FAdd(pl[l].threshold_shift, SumShifts(pl, S \ {l}))

\* each layer's weight_delta is its weight after the batch minus its
\* weight before (1.0 if newly seeded), up to the rounding of the additions
WeightDeltasAccount ==
    /\ DOMAIN update.per_layer = DOMAIN layer_weights
    /\ \A l \in DOMAIN layer_weights :
           WithinRounding(FAdd(BeforeWeight(l), update.per_layer[l].weight_delta),
                          layer_weights[l])

\* the threshold_shift of all layers sum to the change of global_threshold,
\* up to the rounding of the additions
ThresholdShiftsAccount ==
    WithinRounding(FAdd(update.before.global_threshold,
                        SumShifts(update.per_layer, DOMAIN update.per_layer)),
                   global_threshold)

\* C23 as claimed: for every batch applied to an in-range state without
\* saturation, each layer's weight_delta equals its weight after the batch
\* minus its weight before (1.0 if newly seeded), and the threshold_shift
\* of all layers sum to global_threshold after the batch minus
\* global_threshold before, for every feedback kind including
\* MISSED_ATTACK (equalities taken up to float rounding).
C23_AdjustmentsAccountForBatch ==
    Unsaturated => (WeightDeltasAccount /\ ThresholdShiftsAccount)

----------------------------------------------------------------------------
(* Properties of spike_ratio                                               *)

\* the number of packets that qualified for the reported analyze call
Qualifying == Len(Filter(packets, result.min_severity))

\* long_window / max(n, short_window) when n < long_window, 1 otherwise
RatioOfWindows(n) ==
    IF n < long_window
    THEN IntDiv(long_window, IF n > short_window THEN n ELSE short_window)
    ELSE F1_0

\* what holds of spike_ratio whatever the rounding: it is at least 1, the
\* long_rate = 0 branch is not taken, and spike_score > 0 exactly when
\* n < long_window and short_window < long_window
RatioAtLeastOne ==
    /\ FLeq(F1_0, result.value.spike_ratio)
    /\ IntDiv(result.value.long_count, long_window) # F0
    /\ FLess(F0, result.value.spike_score)
           <=> (Qualifying < long_window /\ short_window < long_window)

\* C24 as claimed: for n >= 1 qualifying packets spike_ratio is
\* long_window / max(n, short_window) when n < long_window and 1 when
\* n >= long_window; it is at least 1, the long_rate = 0 branch is never
\* taken, and spike_score > 0 exactly when n < long_window and
\* short_window < long_window.
C24_SpikeRatioOfWindows ==
    (lastOp = "analyze" /\ Qualifying >= 1) =>
        /\ result.value.spike_ratio = RatioOfWindows(Qualifying)
        /\ RatioAtLeastOne

\* C24 amended: spike_ratio is the quotient of the two rounded rates, which
\* is long_window / max(n, short_window) (1 when n >= long_window) up to
\* float rounding, at most 2^-50 away; the rest holds as claimed.
C24_SpikeRatioOfWindowsUpToRounding ==
    (lastOp = "analyze" /\ Qualifying >= 1) =>
        /\ WithinRounding(result.value.spike_ratio, RatioOfWindows(Qualifying))
        /\ RatioAtLeastOne

\* an analysis of a partly filled long window whose spike_ratio is one
\* rounding step away from long_window / max(n, short_window)
C24_Witness ==
    /\ lastOp = "analyze"
    /\ Qualifying >= 1
    /\ Qualifying < long_window
    /\ short_window < long_window
    /\ result.value.spike_ratio # RatioOfWindows(Qualifying)
    /\ FLess(F0, result.value.spike_score)

====
